---- MODULE Spec2Model ----
(***************************************************************************)
(* MemStorage (src/storage.ts) and the cart REST handlers that sit on it.  *)
(*                                                                         *)
(* A JavaScript Map is modelled as the sequence of its entries             *)
(* [k |-> key, v |-> value] in insertion order: Map.set on a present key   *)
(* replaces the value in place, on a new key appends, Map.delete removes   *)
(* the entry, and Array.from(map.values()) is the sequence of the values.  *)
(*                                                                         *)
(* Product.rating is a decimal string with one fraction digit ("4.3"); it  *)
(* is modelled as the number of tenths (43).                               *)
(***************************************************************************)
EXTENDS Integers, Sequences, FiniteSets, TLC

VARIABLES users, products, cart, reviews,
          currentUserId, currentProductId, currentCartItemId, currentReviewId,
          seedPending, clock, lastOp, inflight

vars == <<users, products, cart, reviews,
          currentUserId, currentProductId, currentCartItemId, currentReviewId,
          seedPending, clock, lastOp, inflight>>

userVars == <<users, currentUserId, seedPending>>
productVars == <<products, currentProductId>>
cartVars == <<cart, currentCartItemId>>
reviewVars == <<reviews, currentReviewId, clock>>

-----------------------------------------------------------------------------
(* Bounds of the model.                                                    *)

\* createReview is offered while fewer than MaxReviews identifiers are used.
MaxReviews == 3
\* addToCart may create a record while fewer than MaxCartItems identifiers are used.
MaxCartItems == 2
\* A merge or a quantity update is offered while the result stays within
\* -MaxQuantity..MaxQuantity.
MaxQuantity == 3
\* createUser is offered while fewer than MaxUsers identifiers are used.
MaxUsers == 4
\* createProduct is offered while fewer than MaxProducts identifiers are used.
MaxProducts == 2

\* The rating range the POST /api/reviews schema admits.
MinRating == 1
MaxRating == 5

Ratings == MinRating..MaxRating

-----------------------------------------------------------------------------
(* JavaScript values of the fields that can hold a non-number (userId,     *)
(* quantity).  A key that is missing from an object reads as undefined, so *)
(* a missing key is modelled as the value Undefined: every read of these   *)
(* fields in the code (===, ||, +) treats both alike.                      *)

Num(n) == [t |-> "number", v |-> n]
Undefined == [t |-> "undefined", v |-> 0]
Null == [t |-> "null", v |-> 0]
NaN == [t |-> "NaN", v |-> 0]

\* a === b
StrictEq(a, b) == a.t # "NaN" /\ a = b

\* ToBoolean(a) for a number, undefined, null or NaN
Truthy(a) == a.t = "number" /\ a.v # 0

\* a || d
OrElse(a, d) == IF Truthy(a) THEN a ELSE d

\* a + b on numbers: undefined and NaN give NaN, null converts to 0
Plus(a, b) ==
    IF a.t \in {"undefined", "NaN"} \/ b.t \in {"undefined", "NaN"}
    THEN NaN
    ELSE Num(a.v + b.v)

\* { ...base, ...over }: the keys of both, over's value where both have the key
Spread(base, over) ==
    [key \in (DOMAIN base) \cup (DOMAIN over) |->
        IF key \in DOMAIN over THEN over[key] ELSE base[key]]

-----------------------------------------------------------------------------
(* Map operations.                                                         *)

MapKeys(m) == {m[i].k : i \in 1..Len(m)}
MapHas(m, key) == key \in MapKeys(m)
MapIndex(m, key) == CHOOSE i \in 1..Len(m) : m[i].k = key
MapGet(m, key) == m[MapIndex(m, key)].v
MapValues(m) == [i \in 1..Len(m) |-> m[i].v]
MapSet(m, key, val) ==
    IF MapHas(m, key)
    THEN [m EXCEPT ![MapIndex(m, key)] = [k |-> key, v |-> val]]
    ELSE Append(m, [k |-> key, v |-> val])
MapDelete(m, key) == SelectSeq(m, LAMBDA e : e.k # key)

\* Array.prototype.filter and find are SelectSeq: filter is the selected
\* subsequence, find its first element.

-----------------------------------------------------------------------------
(* Users.                                                                  *)

\* the constructor's createUser argument
SeedUser == [username |-> "admin", password |-> "admin123"]

\* { ...insertUser, id, isAdmin: false }
NewUser_InputWins(id, insertUser) == Spread([id |-> id, isAdmin |-> FALSE], insertUser)
NewUser(id, insertUser) == Spread(insertUser, [id |-> id, isAdmin |-> FALSE])

\* getUserByUsername: the matching users, the first of which find() returns
usersNamed(username) == SelectSeq(MapValues(users), LAMBDA user : user.username = username)

verifyAdmin_EitherMatches(username, password) ==
    IF Len(usersNamed(username)) = 0 THEN FALSE
    ELSE LET user == usersNamed(username)[1]
         IN user.password = password \/ user.isAdmin
verifyAdmin_LastMatch(username, password) ==
    IF Len(usersNamed(username)) = 0 THEN FALSE
    ELSE LET user == usersNamed(username)[Len(usersNamed(username))]
         IN user.password = password /\ user.isAdmin
verifyAdmin(username, password) ==
    IF Len(usersNamed(username)) = 0 THEN FALSE
    ELSE LET user == usersNamed(username)[1]
         IN user.password = password /\ user.isAdmin

createUser(insertUser) ==
    /\ currentUserId <= MaxUsers
    /\ LET id == currentUserId
           user == NewUser(id, insertUser)
       IN /\ currentUserId' = id + 1
          /\ users' = MapSet(users, id, user)
          /\ lastOp' = [op |-> "createUser", id |-> id, ret |-> user,
                        asked |-> "isAdmin" \in DOMAIN insertUser]
    /\ UNCHANGED <<seedPending, cartVars, productVars, reviewVars>>

\* the constructor's .then callback: user is the record its createUser returned
ElevateAdmin ==
    /\ seedPending
    /\ LET user == NewUser(1, SeedUser)
       IN users' = MapSet(users, user.id, Spread(user, [isAdmin |-> TRUE]))
    /\ seedPending' = FALSE
    /\ lastOp' = [op |-> "elevateAdmin"]
    /\ UNCHANGED <<currentUserId, cartVars, productVars, reviewVars>>

-----------------------------------------------------------------------------
(* Products.                                                               *)

NoBadge == "<null>"

SeedProduct ==
    [name |-> "Flaze Heated Lunch Box", description |-> "Premium heated lunch box",
     price |-> "59.99", image |-> "", rating |-> 50, reviewCount |-> 0,
     badge |-> "New", sizes |-> <<"S", "M", "L">>, featured |-> TRUE]

\* createProduct's record for input p (keys that are missing fall back)
NewProduct_PreIncrement(id, p) ==
    [id |-> id + 1,
     name |-> p.name,
     description |-> p.description,
     price |-> p.price,
     image |-> p.image,
     rating |-> p.rating,
     reviewCount |-> IF "reviewCount" \in DOMAIN p /\ p.reviewCount # 0
                     THEN p.reviewCount ELSE 0,
     badge |-> IF "badge" \in DOMAIN p /\ p.badge \notin {"", NoBadge}
               THEN p.badge ELSE NoBadge,
     sizes |-> p.sizes,
     featured |-> IF "featured" \in DOMAIN p THEN p.featured ELSE TRUE]
NewProduct(id, p) ==
    [id |-> id,
     name |-> p.name,
     description |-> p.description,
     price |-> p.price,
     image |-> p.image,
     rating |-> p.rating,
     reviewCount |-> IF "reviewCount" \in DOMAIN p /\ p.reviewCount # 0
                     THEN p.reviewCount ELSE 0,
     badge |-> IF "badge" \in DOMAIN p /\ p.badge \notin {"", NoBadge}
               THEN p.badge ELSE NoBadge,
     sizes |-> p.sizes,
     featured |-> IF "featured" \in DOMAIN p THEN p.featured ELSE TRUE]

\* A product key whose value is undefined is modelled as a key the record
\* does not have: a read of either gives undefined.  An updateData is
\* [given |-> the keys passed with a value (null included), undef |-> the
\* keys passed as undefined]; a key in neither is not passed.
Restrict(r, keys) == [key \in keys |-> r[key]]

\* updateProduct on the products map: the map after the call
updateProduct(ps, id, updateData) ==
    IF ~MapHas(ps, id) THEN ps
    ELSE LET product == MapGet(ps, id)
             given == updateData.given
             \* { ...product, ...updateData }
             merged == Spread(product, given)
             spread == Restrict(merged, (DOMAIN merged) \ updateData.undef)
             \* updateData.f !== undefined ? updateData.f : product.f
             kept(f) == IF f \in DOMAIN given THEN given[f] ELSE product[f]
             updatedProduct ==
                 Spread(spread,
                        [reviewCount |-> kept("reviewCount"),
                         badge |-> kept("badge"),
                         featured |-> kept("featured")])
         IN MapSet(ps, id, updatedProduct)

\* this.currentXId++ : the identifier a create call takes
FreshId_FromSize(counter, m) == Len(m) + 1
FreshId(counter, m) == counter

createProduct(insertProduct) ==
    /\ currentProductId <= MaxProducts
    /\ LET id == FreshId(currentProductId, products)
           product == NewProduct(id, insertProduct)
       IN /\ currentProductId' = id + 1
          /\ products' = MapSet(products, id, product)
          /\ lastOp' = [op |-> "createProduct", id |-> id, ret |-> TRUE]
    /\ UNCHANGED <<userVars, cartVars, reviewVars>>

\* the updateProduct call; ret is FALSE for the undefined result
UpdateProduct(id, updateData) ==
    /\ products' = updateProduct(products, id, updateData)
    /\ lastOp' = [op |-> "updateProduct", id |-> id, ret |-> MapHas(products, id)]
    /\ UNCHANGED <<currentProductId, userVars, cartVars, reviewVars>>

-----------------------------------------------------------------------------
(* Reviews.                                                                *)

RECURSIVE SumRatings(_)
\* approvedReviews.reduce((sum, review) => sum + review.rating, 0)
SumRatings(s) == IF s = <<>> THEN 0 ELSE Head(s).rating + SumRatings(Tail(s))

\* (total / n).toFixed(1), in tenths.  toFixed picks the tenth nearest to the
\* double total/n and the larger one on an exact tie.  For n < 20 a tie of
\* total/n is a multiple of 1/4 and so exact in binary; every other quotient
\* is further from a tie than the double's error.
toFixed1(total, n) == (20 * total + n) \div (2 * n)

approvedOf(rs) == SelectSeq(MapValues(rs), LAMBDA review : review.approved)

\* updateProductRatings: the products map after the call
updateProductRatings_ResetWhenEmpty(ps, rs) ==
    IF Len(ps) = 0 THEN ps
    ELSE LET product == MapValues(ps)[1]
             approvedReviews == approvedOf(rs)
         IN IF Len(approvedReviews) = 0
            THEN updateProduct(ps, product.id,
                    [given |-> [rating |-> 0, reviewCount |-> 0], undef |-> {}])
            ELSE updateProduct(ps, product.id,
                    [given |-> [rating |-> toFixed1(SumRatings(approvedReviews),
                                                   Len(approvedReviews)),
                                reviewCount |-> Len(approvedReviews)],
                     undef |-> {}])
updateProductRatings_LastProduct(ps, rs) ==
    IF Len(ps) = 0 THEN ps
    ELSE LET product == MapValues(ps)[Len(ps)]
             approvedReviews == approvedOf(rs)
         IN IF Len(approvedReviews) = 0 THEN ps
            ELSE updateProduct(ps, product.id,
                    [given |-> [rating |-> toFixed1(SumRatings(approvedReviews),
                                                   Len(approvedReviews)),
                                reviewCount |-> Len(approvedReviews)],
                     undef |-> {}])
updateProductRatings(ps, rs) ==
    IF Len(ps) = 0 THEN ps
    ELSE LET product == MapValues(ps)[1]
             approvedReviews == approvedOf(rs)
         IN IF Len(approvedReviews) = 0 THEN ps
            ELSE updateProduct(ps, product.id,
                    [given |-> [rating |-> toFixed1(SumRatings(approvedReviews),
                                                   Len(approvedReviews)),
                                reviewCount |-> Len(approvedReviews)],
                     undef |-> {}])

\* getAllReviews / getApprovedReviews sort by createdAt descending; the sort
\* is stable, so reviews with equal createdAt keep their insertion order.
RECURSIVE SortDesc(_)
InsertDesc(r, s) ==
    LET pos == CHOOSE i \in 1..(Len(s) + 1) :
                  /\ \A j \in 1..(i - 1) : s[j].createdAt >= r.createdAt
                  /\ i <= Len(s) => s[i].createdAt < r.createdAt
    IN SubSeq(s, 1, pos - 1) \o <<r>> \o SubSeq(s, pos, Len(s))
SortDesc(s) == IF s = <<>> THEN <<>>
               ELSE InsertDesc(s[Len(s)], SortDesc(SubSeq(s, 1, Len(s) - 1)))

getAllReviews == SortDesc(MapValues(reviews))
getApprovedReviews == SortDesc(approvedOf(reviews))

\* The record createReview stores for input insertReview at time now.  The
\* input's own approved key, if any, is not read.
NewReview_InputApproved(id, insertReview, now) ==
    [id |-> id,
     name |-> insertReview.name,
     rating |-> insertReview.rating,
     comment |-> IF "comment" \in DOMAIN insertReview /\ insertReview.comment # ""
                 THEN insertReview.comment ELSE "",
     approved |-> IF "approved" \in DOMAIN insertReview
                  THEN insertReview.approved ELSE TRUE,
     createdAt |-> now]
NewReview(id, insertReview, now) ==
    [id |-> id,
     name |-> insertReview.name,
     rating |-> insertReview.rating,
     comment |-> IF "comment" \in DOMAIN insertReview /\ insertReview.comment # ""
                 THEN insertReview.comment ELSE "",
     approved |-> TRUE,
     createdAt |-> now]

\* tick: how far the wall clock has moved since the previous createReview
createReview(insertReview, tick) ==
    /\ currentReviewId <= MaxReviews
    /\ LET id == FreshId(currentReviewId, reviews)
           review == NewReview(id, insertReview, clock + tick)
           rs == MapSet(reviews, id, review)
       IN /\ currentReviewId' = id + 1
          /\ reviews' = rs
          /\ clock' = clock + tick
          /\ products' = updateProductRatings(products, rs)
          /\ lastOp' = [op |-> "createReview", id |-> id, ret |-> TRUE]
    /\ UNCHANGED <<userVars, cartVars, currentProductId>>

updateReview(id, approved) ==
    /\ IF ~MapHas(reviews, id)
       THEN /\ UNCHANGED <<reviews, products>>
            /\ lastOp' = [op |-> "updateReview", id |-> id, arg |-> approved, ret |-> FALSE]
       ELSE LET updatedReview == [MapGet(reviews, id) EXCEPT !.approved = approved]
                rs == MapSet(reviews, id, updatedReview)
            IN /\ reviews' = rs
               /\ products' = updateProductRatings(products, rs)
               /\ lastOp' = [op |-> "updateReview", id |-> id, arg |-> approved, ret |-> TRUE]
    /\ UNCHANGED <<userVars, cartVars, currentProductId, currentReviewId, clock>>

deleteReview(id) ==
    /\ LET deleted == MapHas(reviews, id)
           rs == MapDelete(reviews, id)
       IN /\ reviews' = rs
          /\ products' = IF deleted THEN updateProductRatings(products, rs) ELSE products
          /\ lastOp' = [op |-> "deleteReview", id |-> id, ret |-> deleted]
    /\ UNCHANGED <<userVars, cartVars, currentProductId, currentReviewId, clock>>

-----------------------------------------------------------------------------
(* Cart.  A cart item is [id, userId, productId, size, quantity]; userId   *)
(* and quantity are JavaScript values (a number, null, undefined, NaN).    *)

\* getCartItems(userId): `if (userId)` is false for undefined, null and 0
getCartItems(userId) ==
    IF Truthy(userId)
    THEN SelectSeq(MapValues(cart), LAMBDA item : StrictEq(item.userId, userId))
    ELSE SelectSeq(MapValues(cart), LAMBDA item : StrictEq(item.userId, Undefined))

\* the callback of addToCart's find
SameCombo(item, insertCartItem) ==
    /\ item.productId = insertCartItem.productId
    /\ item.size = insertCartItem.size
    /\ StrictEq(item.userId, insertCartItem.userId)

\* { ...insertCartItem, id }
NewCartItem(id, insertCartItem) == Spread(insertCartItem, [id |-> id])

\* the quantity addToCart hands to updateCartItemQuantity on a merge
MergedQuantity_LastWins(existingItem, insertCartItem) ==
    OrElse(insertCartItem.quantity, Num(1))
MergedQuantity(existingItem, insertCartItem) ==
    Plus(existingItem.quantity, OrElse(insertCartItem.quantity, Num(1)))

\* updateCartItemQuantity on the cart map: the map after the call
SetQuantity_Upsert(c, id, quantity) ==
    IF ~MapHas(c, id)
    THEN MapSet(c, id, [id |-> id, userId |-> Undefined, productId |-> 1,
                        size |-> "M", quantity |-> quantity])
    ELSE MapSet(c, id, [MapGet(c, id) EXCEPT !.quantity = quantity])
SetQuantity(c, id, quantity) ==
    IF ~MapHas(c, id) THEN c
    ELSE MapSet(c, id, [MapGet(c, id) EXCEPT !.quantity = quantity])

\* the quantities the model lets a record hold
InBound(q) == q.t = "number" => (0 - MaxQuantity <= q.v /\ q.v <= MaxQuantity)

addToCart(insertCartItem) ==
    /\ LET matches == SelectSeq(MapValues(cart), LAMBDA item : SameCombo(item, insertCartItem))
       IN IF Len(matches) > 0
          THEN LET existingItem == matches[1]
                   quantity == MergedQuantity(existingItem, insertCartItem)
               IN /\ InBound(quantity)
                  /\ cart' = SetQuantity(cart, existingItem.id, quantity)
                  /\ UNCHANGED currentCartItemId
                  /\ lastOp' = [op |-> "addToCart", id |-> existingItem.id, ret |-> TRUE]
          ELSE LET id == FreshId(currentCartItemId, cart)
               IN /\ id <= MaxCartItems
                  /\ currentCartItemId' = id + 1
                  /\ cart' = MapSet(cart, id, NewCartItem(id, insertCartItem))
                  /\ lastOp' = [op |-> "addToCart", id |-> id, ret |-> TRUE]
    /\ UNCHANGED <<userVars, productVars, reviewVars>>

updateCartItemQuantity(id, quantity) ==
    /\ InBound(quantity)
    /\ cart' = SetQuantity(cart, id, quantity)
    /\ lastOp' = [op |-> "updateCartItemQuantity", id |-> id, ret |-> MapHas(cart, id)]
    /\ UNCHANGED <<currentCartItemId, userVars, productVars, reviewVars>>

removeFromCart(id) ==
    /\ cart' = MapDelete(cart, id)
    /\ lastOp' = [op |-> "removeFromCart", id |-> id, ret |-> MapHas(cart, id)]
    /\ UNCHANGED <<currentCartItemId, userVars, productVars, reviewVars>>

\* the cart map after clearCart(userId)
Cleared(c, userId) ==
    IF Truthy(userId)
    THEN SelectSeq(c, LAMBDA e : ~StrictEq(e.v.userId, userId))
    ELSE SelectSeq(c, LAMBDA e : ~StrictEq(e.v.userId, Undefined))

clearCart(userId) ==
    /\ cart' = Cleared(cart, userId)
    /\ lastOp' = [op |-> "clearCart", arg |-> userId, ret |-> TRUE]
    /\ UNCHANGED <<currentCartItemId, userVars, productVars, reviewVars>>

-----------------------------------------------------------------------------
(* The cart REST handlers.  A body field is a JavaScript value; Str stands *)
(* for a value that is not a number.                                       *)

Str == [t |-> "string", v |-> 0]

\* cartItemSchema.safeParse(body).success
CartBodyValid(body) ==
    /\ body.quantity.t \in {"number", "undefined"}
    /\ body.userId.t \in {"number", "undefined", "null"}

\* parsedBody.data: quantity z.number().optional().default(1)
CartBodyData(body) ==
    [productId |-> body.productId, size |-> body.size,
     quantity |-> IF body.quantity = Undefined THEN Num(1) ELSE body.quantity,
     userId |-> body.userId]

\* quantitySchema: z.number().int().positive()
QuantityValid(q) == q.t = "number" /\ q.v > 0

Respond(route, status) ==
    /\ lastOp' = [op |-> route, status |-> status]
    /\ UNCHANGED <<cartVars, userVars, productVars, reviewVars>>

PostCart(body) ==
    IF ~CartBodyValid(body) THEN Respond("POST /api/cart", 400)
    ELSE addToCart(CartBodyData(body))

PatchCart(id, body) ==
    IF ~QuantityValid(body.quantity) THEN Respond("PATCH /api/cart/:id", 400)
    ELSE updateCartItemQuantity(id, body.quantity)

DeleteCartItem(id) == removeFromCart(id)

DeleteCart == clearCart(Undefined)

-----------------------------------------------------------------------------
(* The admin middleware.  An Authorization header is absent or is its text *)
(* cut at the spaces (words); the word after the scheme is the base64 text *)
(* of the credentials.  A credential string is the sequence of its         *)
(* colon-free pieces: "admin:admin123:x" is <<"admin", "admin123", "x">>.  *)

\* base64 text of a credential string, and Buffer.from(.., 'base64')
Base64(credentials) == [b64 |-> credentials]
FromBase64(text) == text.b64

NoHeader == [present |-> FALSE, words |-> <<>>]
Header(scheme, credentials) ==
    [present |-> TRUE, words |-> <<scheme, Base64(credentials)>>]

\* authHeader.startsWith('Basic ')
StartsWithBasic(words) == Len(words) >= 2 /\ words[1] = "Basic"

\* requireAdmin: next() is called, or the status it answers with.  A
\* password that destructures to undefined equals no stored password.
requireAdmin_NoSchemeCheck(header) ==
    IF ~header.present \/ Len(header.words) < 2
    THEN [next |-> FALSE, status |-> 401]
    ELSE LET base64Credentials == header.words[2]
             credentials == FromBase64(base64Credentials)
             isAdmin == /\ Len(credentials) >= 2
                        /\ verifyAdmin(credentials[1], credentials[2])
         IN IF ~isAdmin THEN [next |-> FALSE, status |-> 403]
            ELSE [next |-> TRUE, status |-> 200]
requireAdmin(header) ==
    IF ~header.present \/ ~StartsWithBasic(header.words)
    THEN [next |-> FALSE, status |-> 401]
    ELSE LET base64Credentials == header.words[2]
             credentials == FromBase64(base64Credentials)
             \* const [username, password] = credentials.split(':')
             isAdmin == /\ Len(credentials) >= 2
                        /\ verifyAdmin(credentials[1], credentials[2])
         IN IF ~isAdmin THEN [next |-> FALSE, status |-> 403]
            ELSE [next |-> TRUE, status |-> 200]

\* the middleware's own answer: the route handler does not run
Reject(route, status, header) ==
    /\ lastOp' = [op |-> route, status |-> status, auth |-> header]
    /\ UNCHANGED <<cartVars, userVars, productVars, reviewVars>>

AdminGetReviews(header) ==
    LET auth == requireAdmin(header)
    IN IF ~auth.next THEN Reject("GET /api/admin/reviews", auth.status, header)
       ELSE /\ lastOp' = [op |-> "GET /api/admin/reviews", status |-> 200,
                          auth |-> header]
            /\ UNCHANGED <<cartVars, userVars, productVars, reviewVars>>

Bool(b) == [t |-> "boolean", v |-> b]

\* approvalSchema: { approved: z.boolean() }
ApprovalValid(body) == body.approved.t = "boolean"

AdminPatchReview(header, id, body) ==
    LET auth == requireAdmin(header)
    IN IF ~auth.next THEN Reject("PATCH /api/admin/reviews/:id", auth.status, header)
       ELSE IF ~ApprovalValid(body) THEN Respond("PATCH /api/admin/reviews/:id", 400)
       ELSE updateReview(id, body.approved.v)

AdminDeleteReview(header, id) ==
    LET auth == requireAdmin(header)
    IN IF ~auth.next THEN Reject("DELETE /api/admin/reviews/:id", auth.status, header)
       ELSE deleteReview(id)

\* productSchema's keys; a z.object drops every other key of the body
ProductSchemaKeys == {"name", "description", "price", "image", "sizes", "badge"}

AdminPatchProduct(header, id, body) ==
    LET auth == requireAdmin(header)
        data == Restrict(body, (DOMAIN body) \cap ProductSchemaKeys)
    IN IF ~auth.next THEN Reject("PATCH /api/admin/products/:id", auth.status, header)
       ELSE UpdateProduct(id, [given |-> data, undef |-> {}])

-----------------------------------------------------------------------------
(* Requests in flight.  A route handler runs from its start to its first   *)
(* `await storage.x(...)` in one turn of the event loop, and the body of   *)
(* storage.x, which contains no await, runs inside that call; what follows *)
(* the await (sending the response) runs in a later turn, after any number *)
(* of other handlers.  inflight[c] is where client c's request stands.     *)

\* so many clients send one request each
NumClients == 2
Clients == 1..NumClients

Idle == [pc |-> "idle"]

\* reviewSchema: name z.string().min(1), rating z.number().int().min(1).max(5)
ReviewBodyValid(body) == body.name # "" /\ body.rating \in Ratings

\* parsedBody.data: comment z.string().optional().default("")
ReviewBodyData(body) ==
    [name |-> body.name, rating |-> body.rating,
     comment |-> IF "comment" \in DOMAIN body THEN body.comment ELSE ""]

PostReview(body) ==
    IF ~ReviewBodyValid(body) THEN Respond("POST /api/reviews", 400)
    ELSE createReview(ReviewBodyData(body), 1)

\* the handler of request, up to its await or its early return
Handler(request) ==
    CASE request.route = "POST /api/cart" -> PostCart(request.body)
      [] request.route = "POST /api/reviews" -> PostReview(request.body)
      [] request.route = "PATCH /api/admin/reviews/:id" ->
            \* after requireAdmin has called next()
            updateReview(request.id, request.body.approved.v)

\* client c's request is handled; a handler that answered 400 is done, the
\* others wait for the promise of the storage call
Call(c, request) ==
    /\ inflight[c].pc = "idle"
    /\ Handler(request)
    /\ inflight' = [inflight EXCEPT ![c] =
                       [pc |-> IF "status" \in DOMAIN lastOp' THEN "done" ELSE "awaiting",
                        request |-> request,
                        result |-> lastOp']]

\* the status the code after the await answers with
StatusAfter(request, result) ==
    IF request.route = "PATCH /api/admin/reviews/:id"
    THEN (IF result.ret THEN 200 ELSE 404)
    ELSE 201

\* the code after client c's await runs
Resume(c) ==
    /\ inflight[c].pc = "awaiting"
    /\ Respond(inflight[c].request.route,
               StatusAfter(inflight[c].request, inflight[c].result))
    /\ inflight' = [inflight EXCEPT ![c].pc = "done"]

-----------------------------------------------------------------------------
(* The state after `new MemStorage()`: the constructor's createUser and    *)
(* createProduct bodies have run (they contain no await), the callback     *)
(* that elevates the admin is queued.                                      *)

Init ==
    /\ users = <<[k |-> 1, v |-> NewUser(1, SeedUser)]>>
    /\ currentUserId = 2
    /\ seedPending = TRUE
    /\ products = <<[k |-> 1, v |-> NewProduct(1, SeedProduct)]>>
    /\ currentProductId = 2
    /\ cart = <<>>
    /\ currentCartItemId = 1
    /\ reviews = <<>>
    /\ currentReviewId = 1
    /\ clock = 0
    /\ lastOp = [op |-> "constructor"]
    /\ inflight = [c \in Clients |-> Idle]

ReviewIds == 1..MaxReviews

\* Inputs of createReview: a rating, and possibly an approved key of its own.
InsertReviews ==
    [name : {"reviewer"}, rating : Ratings]
    \cup [name : {"reviewer"}, rating : Ratings, approved : {FALSE}]

\* The review operations, each createReview a millisecond after the one
\* before it (createdAt plays no part in the aggregate).
NextReview ==
    \/ \E insertReview \in InsertReviews : createReview(insertReview, 1) /\ UNCHANGED inflight
    \/ \E id \in ReviewIds, approved \in BOOLEAN : updateReview(id, approved) /\ UNCHANGED inflight
    \/ \E id \in ReviewIds : deleteReview(id) /\ UNCHANGED inflight

SpecReview == Init /\ [][NextReview]_vars

CartItemIds == 1..MaxCartItems
\* owners a caller can name: none (key omitted), null, or a number
UserIdInputs == {Undefined, Null, Num(0), Num(1)}
\* arguments of getCartItems(userId?: number) and clearCart(userId?: number)
ScopeInputs == UserIdInputs \ {Null}
ProductIdInputs == {1, 2}
SizeInputs == {"M", "L"}
\* quantities a caller can pass to addToCart: none (key omitted) or a number
QuantityInputs == {Undefined} \cup {Num(n) : n \in 0..2}

InsertCartItems ==
    [userId : UserIdInputs, productId : ProductIdInputs, size : SizeInputs,
     quantity : QuantityInputs]

NextCart ==
    \/ \E insertCartItem \in InsertCartItems : addToCart(insertCartItem) /\ UNCHANGED inflight
    \/ \E id \in CartItemIds, n \in 0..MaxQuantity :
          updateCartItemQuantity(id, Num(n)) /\ UNCHANGED inflight
    \/ \E id \in CartItemIds : removeFromCart(id) /\ UNCHANGED inflight
    \/ \E userId \in ScopeInputs : clearCart(userId) /\ UNCHANGED inflight

SpecCart == Init /\ [][NextCart]_vars

\* request bodies of POST /api/cart and PATCH /api/cart/:id
CartBodies ==
    [userId : {Undefined, Null, Num(1)}, productId : ProductIdInputs, size : SizeInputs,
     quantity : {Undefined, Str} \cup {Num(n) : n \in (0 - 1)..2}]
QuantityBodies == [quantity : {Str} \cup {Num(n) : n \in (0 - 1)..MaxQuantity}]

NextRest ==
    \/ \E body \in CartBodies : PostCart(body) /\ UNCHANGED inflight
    \/ \E id \in CartItemIds, body \in QuantityBodies : PatchCart(id, body) /\ UNCHANGED inflight
    \/ \E id \in CartItemIds : DeleteCartItem(id) /\ UNCHANGED inflight
    \/ DeleteCart /\ UNCHANGED inflight

SpecRest == Init /\ [][NextRest]_vars

Usernames == {"admin", "bob"}
Passwords == {"admin123", "letmein"}
\* Inputs of createUser: a username and a password, and possibly an isAdmin
\* key of its own.
InsertUsers ==
    [username : Usernames, password : Passwords]
    \cup [username : Usernames, password : Passwords, isAdmin : {TRUE}]

NextUser ==
    \/ \E insertUser \in InsertUsers : createUser(insertUser) /\ UNCHANGED inflight
    \/ ElevateAdmin /\ UNCHANGED inflight

SpecUser == Init /\ [][NextUser]_vars

\* The constructor's `.then` callback is a job on the microtask queue: the
\* event loop runs it once the code that called the constructor returns.
SpecSeed == Init /\ [][NextUser]_vars /\ WF_vars(ElevateAdmin /\ UNCHANGED inflight)

ProductIds == 1..MaxProducts

\* Inputs of createProduct: the required keys, with and without the
\* optional ones.
InsertProducts ==
    {[name |-> "Mug", description |-> "A mug", price |-> "9.99", image |-> "",
      rating |-> 40, sizes |-> <<"M">>],
     [name |-> "Mug", description |-> "A mug", price |-> "9.99", image |-> "",
      rating |-> 40, sizes |-> <<"M">>, reviewCount |-> 2, badge |-> "Sale",
      featured |-> FALSE]}

\* Arguments of updateProduct: nothing, or one key passed with a value,
\* as null (badge) or as undefined.
UpdateDatas ==
    {[given |-> g, undef |-> {}] : g \in {<<>>, [name |-> "Renamed"], [badge |-> NoBadge]}}
    \cup {[given |-> <<>>, undef |-> {f}] : f \in {"name", "rating", "badge"}}

NextProduct ==
    \/ \E insertProduct \in InsertProducts : createProduct(insertProduct) /\ UNCHANGED inflight
    \/ \E id \in ProductIds, updateData \in UpdateDatas :
          UpdateProduct(id, updateData) /\ UNCHANGED inflight

SpecProduct == Init /\ [][NextProduct]_vars

\* The admin specification keeps at most AdminStore reviews and as many
\* users beside the seeded one.
AdminStore == 1

CredentialStrings ==
    {<<"admin", "admin123">>, <<"admin", "admin123", "x">>, <<"admin", "letmein">>,
     <<"bob", "letmein">>, <<"admin">>}

Headers ==
    {NoHeader, Header("Bearer", <<"admin", "admin123">>)}
    \cup {Header("Basic", credentials) : credentials \in CredentialStrings}

ApprovalBodies == {[approved |-> Bool(FALSE)], [approved |-> Str]}

\* JSON bodies of PATCH /api/admin/products/:id, one with keys outside the
\* schema
ProductBodies == {[name |-> "Renamed"], [rating |-> 10, badge |-> NoBadge]}

AdminRequest(header) ==
    \/ AdminGetReviews(header) /\ UNCHANGED inflight
    \/ \E id \in 1..AdminStore, body \in ApprovalBodies :
          AdminPatchReview(header, id, body) /\ UNCHANGED inflight
    \/ \E id \in 1..AdminStore : AdminDeleteReview(header, id) /\ UNCHANGED inflight
    \/ \E body \in ProductBodies : AdminPatchProduct(header, 1, body) /\ UNCHANGED inflight

NextAdmin ==
    \/ ElevateAdmin /\ UNCHANGED inflight
    \/ /\ Len(users) <= AdminStore
       /\ createUser([username |-> "bob", password |-> "letmein"])
       /\ UNCHANGED inflight
    \/ /\ currentReviewId <= AdminStore
       /\ createReview([name |-> "reviewer", rating |-> MaxRating], 1)
       /\ UNCHANGED inflight
    \/ \E header \in Headers : AdminRequest(header)

SpecAdmin == Init /\ [][NextAdmin]_vars

\* The specification of calls with unknown identifiers creates at most
\* SmallStore reviews and cart items and tries one identifier more.
SmallStore == 1

SmallIds == 1..(SmallStore + 1)

NextNotFound ==
    \/ /\ currentReviewId <= SmallStore
       /\ createReview([name |-> "reviewer", rating |-> MaxRating], 1)
       /\ UNCHANGED inflight
    \/ \E id \in SmallIds, approved \in BOOLEAN : updateReview(id, approved) /\ UNCHANGED inflight
    \/ \E id \in SmallIds : deleteReview(id) /\ UNCHANGED inflight
    \/ /\ currentCartItemId <= SmallStore
       /\ addToCart([userId |-> Num(1), productId |-> 1, size |-> "M", quantity |-> Num(1)])
       /\ UNCHANGED inflight
    \/ \E id \in SmallIds : updateCartItemQuantity(id, Num(2)) /\ UNCHANGED inflight
    \/ \E id \in SmallIds : removeFromCart(id) /\ UNCHANGED inflight
    \/ \E id \in SmallIds :
          /\ UpdateProduct(id, [given |-> [name |-> "Renamed", reviewCount |-> 7],
                                undef |-> {}])
          /\ UNCHANGED inflight

SpecNotFound == Init /\ [][NextNotFound]_vars

\* Review operations on a catalogue that grows and is edited.
NextCatalog ==
    \/ \E insertProduct \in InsertProducts : createProduct(insertProduct) /\ UNCHANGED inflight
    \/ \E id \in ProductIds :
          UpdateProduct(id, [given |-> [name |-> "Renamed"], undef |-> {}]) /\ UNCHANGED inflight
    \/ \E rating \in {MinRating, MaxRating} :
          createReview([name |-> "reviewer", rating |-> rating], 1) /\ UNCHANGED inflight
    \/ \E id \in ReviewIds, approved \in BOOLEAN : updateReview(id, approved) /\ UNCHANGED inflight
    \/ \E id \in ReviewIds : deleteReview(id) /\ UNCHANGED inflight

SpecCatalog == Init /\ [][NextCatalog]_vars

\* Creations and removals of reviews and cart items.
NextIds ==
    \/ createReview([name |-> "reviewer", rating |-> MaxRating], 1) /\ UNCHANGED inflight
    \/ \E id \in ReviewIds : deleteReview(id) /\ UNCHANGED inflight
    \/ \E size \in SizeInputs :
          /\ addToCart([userId |-> Num(1), productId |-> 1, size |-> size,
                        quantity |-> Num(1)])
          /\ UNCHANGED inflight
    \/ \E id \in CartItemIds : removeFromCart(id) /\ UNCHANGED inflight
    \/ clearCart(Num(1)) /\ UNCHANGED inflight

SpecIds == Init /\ [][NextIds]_vars

\* Requests of the concurrent clients.
Requests ==
    {[route |-> "POST /api/cart",
      body |-> [userId |-> Undefined, productId |-> 1, size |-> size, quantity |-> quantity]] :
        size \in SizeInputs, quantity \in {Undefined, Num(2)}}
    \cup {[route |-> "POST /api/reviews", body |-> [name |-> name, rating |-> MaxRating]] :
             name \in {"reviewer", ""}}
    \cup {[route |-> "POST /api/reviews", body |-> [name |-> "reviewer", rating |-> MinRating]]}
    \cup {[route |-> "PATCH /api/admin/reviews/:id", id |-> 1,
            body |-> [approved |-> Bool(FALSE)]]}

NextConcurrent ==
    \/ \E c \in Clients, request \in Requests : Call(c, request)
    \/ \E c \in Clients : Resume(c)

SpecConcurrent == Init /\ [][NextConcurrent]_vars

\* The review operations with the wall clock read by createReview either a
\* millisecond on or still within the millisecond of the previous one.
Ticks == {0, 1}

NextOrder ==
    \/ \E tick \in Ticks :
          createReview([name |-> "reviewer", rating |-> MaxRating], tick) /\ UNCHANGED inflight
    \/ \E id \in ReviewIds, approved \in BOOLEAN :
          updateReview(id, approved) /\ UNCHANGED inflight
    \/ \E id \in ReviewIds : deleteReview(id) /\ UNCHANGED inflight

SpecOrder == Init /\ [][NextOrder]_vars

Next == NextReview \/ NextCart \/ NextRest \/ NextUser \/ NextProduct \/ NextAdmin \/ NextNotFound
        \/ NextCatalog \/ NextIds \/ NextConcurrent
        \/ NextOrder

Spec == Init /\ [][Next]_vars

-----------------------------------------------------------------------------
(* Properties of the review operations.                                    *)

FirstProduct == MapValues(products)[1]
ApprovedIdx == {i \in 1..Len(reviews) : reviews[i].v.approved}
ApprovedCount == Cardinality(ApprovedIdx)
RECURSIVE SumOver(_)
SumOver(I) == IF I = {} THEN 0
              ELSE LET i == CHOOSE j \in I : TRUE
                   IN reviews[i].v.rating + SumOver(I \ {i})
ApprovedTotal == SumOver(ApprovedIdx)

\* r tenths is total/n rounded to one decimal place: |total/n - r/10| <= 1/20
IsRoundedMean(r, total, n) ==
    /\ 2 * n * r - n <= 20 * total
    /\ 20 * total <= 2 * n * r + n

AggregateMatchesApproved ==
    /\ FirstProduct.reviewCount = ApprovedCount
    /\ ApprovedCount >= 1 =>
          IsRoundedMean(FirstProduct.rating, ApprovedTotal, ApprovedCount)

\* C1: in every reachable state the first product's reviewCount is the
\* number of approved reviews and, when there is at least one, its rating is
\* their mean rounded to one decimal place.
C1_RatingConsistent == AggregateMatchesApproved

\* C2: right after createReview the new review is stored with approved =
\* TRUE whatever the input, and the first product's rating and reviewCount
\* are the rounded mean and the number of the approved reviews.
C2_CreateReviewAggregates ==
    lastOp.op = "createReview" =>
        /\ MapHas(reviews, lastOp.id)
        /\ MapGet(reviews, lastOp.id).approved = TRUE
        /\ ApprovedCount >= 1
        /\ AggregateMatchesApproved

\* createReview has just stored the third of three approved reviews and
\* their mean needed rounding
C2_Witness ==
    /\ lastOp.op = "createReview"
    /\ lastOp.id = 3
    /\ Len(reviews) = 3
    /\ ApprovedCount = 3
    /\ 10 * ApprovedTotal # FirstProduct.rating * ApprovedCount
    /\ FirstProduct.reviewCount = 3

\* C3: right after updateReview(id, false) on a stored id the review is not
\* in getApprovedReviews(), is in getAllReviews(), and the first product's
\* rating and reviewCount are those of the other approved reviews.
C3_DisapprovedExcluded ==
    (lastOp.op = "updateReview" /\ lastOp.ret /\ lastOp.arg = FALSE) =>
        /\ \A i \in 1..Len(getApprovedReviews) : getApprovedReviews[i].id # lastOp.id
        /\ \E i \in 1..Len(getAllReviews) : getAllReviews[i].id = lastOp.id
        /\ AggregateMatchesApproved

-----------------------------------------------------------------------------
(* Properties of the cart operations.                                      *)

\* an item without an owner: the userId key omitted, or null
NoOwner(item) == item.userId.t \in {"undefined", "null"}

\* the items the scope userId names: the guest items for no userId, the
\* items owned by that user otherwise
InScope(item, userId) ==
    IF userId = Undefined THEN NoOwner(item) ELSE item.userId = userId

\* the stored records that carry insertCartItem's (userId, productId, size)
WithTriple(c, insertCartItem) ==
    SelectSeq(MapValues(c), LAMBDA item :
        /\ item.userId = insertCartItem.userId
        /\ item.productId = insertCartItem.productId
        /\ item.size = insertCartItem.size)

Requested(insertCartItem) ==
    IF insertCartItem.quantity = Undefined THEN 1 ELSE insertCartItem.quantity.v

\* user identifiers are issued from 1 (currentUserId, src/storage.ts:56)
UserIdArgs == {u \in ScopeInputs : u.t = "number" /\ u.v >= 1}

\* C4: each addToCart of a positive or omitted quantity leaves exactly one
\* record for its (userId, productId, size) triple; its quantity is the
\* requested quantity (1 when omitted), added to the record's former
\* quantity when the triple was stored already, and such a merging call adds
\* no record and uses no identifier.
C4_AddToCartSums ==
    [][\A insertCartItem \in InsertCartItems :
          (Requested(insertCartItem) >= 1 /\ addToCart(insertCartItem)) =>
             LET before == WithTriple(cart, insertCartItem)
                 after == WithTriple(cart', insertCartItem)
             IN /\ Len(after) = 1
                /\ IF Len(before) = 0
                   THEN after[1].quantity = Num(Requested(insertCartItem))
                   ELSE /\ after[1].quantity =
                              Num(before[1].quantity.v + Requested(insertCartItem))
                        /\ Len(cart') = Len(cart)
                        /\ currentCartItemId' = currentCartItemId]_vars

SeqDisjoint(s, t) == \A i \in 1..Len(s), j \in 1..Len(t) : s[i].id # t[j].id

\* C5: getCartItems() returns exactly the items without an owner,
\* getCartItems(u) exactly the items owned by u, and the guest result and
\* every per-user result are disjoint.
C5_ListByOwner ==
    /\ getCartItems(Undefined) = SelectSeq(MapValues(cart), NoOwner)
    /\ \A u \in UserIdArgs :
          /\ getCartItems(u) = SelectSeq(MapValues(cart), LAMBDA item : item.userId = u)
          /\ SeqDisjoint(getCartItems(Undefined), getCartItems(u))

\* C6: an item stored without an owner is among getCartItems() for as long
\* as it is stored, and clearCart() removes it.
C6_GuestItemListedAndCleared ==
    /\ \A i \in 1..Len(cart) :
          NoOwner(cart[i].v) =>
             \E j \in 1..Len(getCartItems(Undefined)) :
                getCartItems(Undefined)[j] = cart[i].v
    /\ (lastOp.op = "clearCart" /\ lastOp.arg = Undefined) =>
          \A i \in 1..Len(cart) : ~NoOwner(cart[i].v)

\* C7: clearCart removes exactly the items of its scope (the items without
\* an owner for no userId, the items owned by u for clearCart(u)), leaves
\* every other entry as it was, and returns true.
C7_ClearCartExactScope ==
    [][(lastOp'.op = "clearCart" /\ lastOp'.arg \in {Undefined} \cup UserIdArgs) =>
          /\ cart' = SelectSeq(cart, LAMBDA e : ~InScope(e.v, lastOp'.arg))
          /\ currentCartItemId' = currentCartItemId
          /\ lastOp'.ret = TRUE]_vars

-----------------------------------------------------------------------------
(* Properties of the cart REST handlers.                                   *)

\* C8: every stored cart item has a quantity that is a positive integer.
C8_QuantityPositive ==
    \A i \in 1..Len(cart) :
        cart[i].v.quantity.t = "number" /\ cart[i].v.quantity.v >= 1

-----------------------------------------------------------------------------
(* Properties of the user operations.                                      *)

\* C9: verifyAdmin(u, p) is true only for u = "admin", p = "admin123" and
\* only once the seed's elevation has been applied.
C9_VerifyAdminOnlySeed ==
    \A u \in Usernames, p \in Passwords :
        verifyAdmin(u, p) => (u = "admin" /\ p = "admin123" /\ ~seedPending)

\* the elevation is applied, a later user reuses the name "admin" with
\* another password, and the seed's credentials verify
C9_Witness ==
    /\ ~seedPending
    /\ \E i \in 2..Len(users) :
          users[i].v.username = "admin" /\ users[i].v.password # "admin123"
    /\ verifyAdmin("admin", "admin123")
    /\ ~verifyAdmin("admin", "letmein")

\* C10: the user createUser returns and stores has isAdmin = FALSE whatever
\* the input, and only the seeded account (id 1, "admin") can be an admin.
C10_OnlySeedIsAdmin ==
    /\ lastOp.op = "createUser" =>
          /\ lastOp.ret.isAdmin = FALSE
          /\ MapGet(users, lastOp.id) = lastOp.ret
    /\ \A i \in 1..Len(users) :
          users[i].v.isAdmin =>
             (users[i].k = 1 /\ users[i].v.id = 1 /\ users[i].v.username = "admin")
    /\ Cardinality({i \in 1..Len(users) : users[i].v.isAdmin}) <= 1

\* createUser has just stored a user whose input asked for isAdmin = TRUE,
\* after the seeded account was elevated
C10_Witness ==
    /\ lastOp.op = "createUser"
    /\ lastOp.asked
    /\ ~seedPending
    /\ MapGet(users, 1).isAdmin
    /\ ~MapGet(users, lastOp.id).isAdmin

-----------------------------------------------------------------------------
(* Properties of the product operations.                                   *)

ProductFields ==
    {"name", "description", "price", "image", "rating", "sizes", "reviewCount",
     "badge", "featured"}

\* records p and q agree on key f: both lack it (undefined) or hold one value
SameField(p, q, f) ==
    /\ (f \in DOMAIN p) = (f \in DOMAIN q)
    /\ f \in DOMAIN p => p[f] = q[f]

\* C11: updateProduct on an existing product keeps the prior value of every
\* field that is not passed or is passed as undefined, sets badge to null
\* when badge is passed as null, and leaves the id as it was.
C11_UpdateKeepsUnsetFields ==
    [][\A id \in ProductIds, updateData \in UpdateDatas :
          (MapHas(products, id) /\ UpdateProduct(id, updateData)) =>
             LET before == MapGet(products, id)
                 after == MapGet(products', id)
             IN /\ \A f \in ProductFields \ DOMAIN updateData.given :
                      SameField(before, after, f)
                /\ ("badge" \in DOMAIN updateData.given
                       /\ updateData.given.badge = NoBadge) => after.badge = NoBadge
                /\ after.id = before.id]_vars

\* C12: product identifiers are 1, 2, ... in creation order, each below the
\* next identifier to assign; createProduct returns the largest one so far;
\* every product is stored under the key equal to its id.  (updateProduct
\* steps preserve all of it.)
C12_ProductIdsMonotonic ==
    /\ \A i \in 1..Len(products) : products[i].k = i /\ products[i].v.id = i
    /\ currentProductId = Len(products) + 1
    /\ lastOp.op = "createProduct" => lastOp.id = currentProductId - 1

\* a second product exists and updateProduct has just run on it after a
\* rename of the first
C12_Witness ==
    /\ Len(products) = 2
    /\ lastOp.op = "updateProduct" /\ lastOp.id = 2 /\ lastOp.ret
    /\ "name" \in DOMAIN products[1].v /\ products[1].v.name = "Renamed"
    /\ products[2].v.badge = "Sale"

-----------------------------------------------------------------------------
(* Properties of the admin gate.                                           *)

\* the decoded credential string of a header that carries one
CredentialsOf(header) == FromBase64(header.words[2])

\* C13: on each admin route a request without an Authorization header or
\* with one not starting with 'Basic ' is answered 401, one whose
\* credentials verifyAdmin refuses is answered 403, and in both cases no
\* collection, counter or product field changes.
C13_AdminGateRejects ==
    [][\A header \in Headers :
          AdminRequest(header) =>
             LET malformed == ~header.present \/ header.words[1] # "Basic"
                 refused == /\ ~malformed
                            /\ LET c == CredentialsOf(header)
                               IN ~(Len(c) >= 2 /\ verifyAdmin(c[1], c[2]))
                 answered(status) ==
                     /\ "status" \in DOMAIN lastOp'
                     /\ lastOp'.status = status
                     /\ UNCHANGED <<cartVars, userVars, productVars, reviewVars>>
             IN /\ malformed => answered(401)
                /\ refused => answered(403)]_vars

\* the admin is elevated, a review is stored, and a PATCH of it with the
\* admin's name and a wrong password has been answered 403
C13_Witness ==
    /\ ~seedPending
    /\ Len(reviews) >= 1
    /\ lastOp.op = "PATCH /api/admin/reviews/:id"
    /\ "auth" \in DOMAIN lastOp
    /\ lastOp.status = 403
    /\ lastOp.auth = Header("Basic", <<"admin", "letmein">>)

\* C17: a request is admitted only if its credential string is exactly
\* "admin:admin123" (the password being all the text after the first colon).
C17_OnlyExactCredentialsAdmitted ==
    (lastOp.op = "GET /api/admin/reviews" /\ lastOp.status = 200) =>
        CredentialsOf(lastOp.auth) = <<"admin", "admin123">>

-----------------------------------------------------------------------------
(* Properties of calls with an identifier the store does not hold.         *)

\* the collection an operation looks its identifier up in
CollectionOf(op) ==
    CASE op = "updateProduct" -> products
      [] op \in {"updateReview", "deleteReview"} -> reviews
      [] op \in {"updateCartItemQuantity", "removeFromCart"} -> cart

\* C14: updateProduct, updateReview, updateCartItemQuantity, deleteReview
\* and removeFromCart called with an identifier that is not stored return
\* the absent result (false) and change no collection, no counter and no
\* product field.
C14_NotFoundChangesNothing ==
    [][(/\ lastOp'.op \in {"updateProduct", "updateReview", "deleteReview",
                           "updateCartItemQuantity", "removeFromCart"}
        /\ ~MapHas(CollectionOf(lastOp'.op), lastOp'.id)) =>
          /\ lastOp'.ret = FALSE
          /\ UNCHANGED <<cartVars, userVars, productVars, reviewVars>>]_vars

\* an approved review has been counted and a cart item stored, and a
\* quantity update with an unknown identifier has returned nothing
C14_Witness ==
    /\ lastOp.op = "updateCartItemQuantity" /\ lastOp.ret = FALSE
    /\ Len(cart) >= 1
    /\ Len(reviews) >= 1
    /\ products[1].v.reviewCount >= 1

-----------------------------------------------------------------------------
(* Frame properties of the review operations.                              *)

ReviewOps == {"createReview", "updateReview", "deleteReview"}

\* C15: when updateReview(id, false) or deleteReview(id) on a stored review
\* leaves no approved review, the first product's rating and reviewCount
\* after the call are the ones before it.
C15_NoApprovedKeepsAggregate ==
    [][(/\ lastOp'.op \in {"updateReview", "deleteReview"}
        /\ lastOp'.ret
        /\ (lastOp'.op = "updateReview" => lastOp'.arg = FALSE)
        /\ ApprovedCount' = 0) =>
          /\ FirstProduct'.rating = FirstProduct.rating
          /\ FirstProduct'.reviewCount = FirstProduct.reviewCount]_vars

\* the last approved review has just been deleted and the product still
\* shows the count from before
C15_Witness ==
    /\ lastOp.op = "deleteReview" /\ lastOp.ret
    /\ ApprovedCount = 0
    /\ FirstProduct.reviewCount >= 1

\* C18: a createReview, updateReview or deleteReview step leaves every
\* product but the first as it was, and of the first changes nothing but
\* rating and reviewCount; no product is added, removed or rekeyed and the
\* next product identifier stays.
C18_ReviewOpsTouchFirstProductOnly ==
    [][lastOp'.op \in ReviewOps =>
          /\ Len(products') = Len(products)
          /\ currentProductId' = currentProductId
          /\ \A i \in 2..Len(products) : products'[i] = products[i]
          /\ products'[1].k = products[1].k
          /\ DOMAIN products'[1].v = DOMAIN products[1].v
          /\ \A f \in (DOMAIN products[1].v) \ {"rating", "reviewCount"} :
                products'[1].v[f] = products[1].v[f]]_vars

\* a second product exists, the first one has been renamed, and a
\* createReview has just brought the first product's count to two
C18_Witness ==
    /\ Len(products) >= 2
    /\ lastOp.op = "createReview"
    /\ products[1].v.name = "Renamed"
    /\ products[1].v.reviewCount = 2
    /\ products[2].v.reviewCount = 0

-----------------------------------------------------------------------------
(* Properties of the cart and review identifiers.                          *)

\* two items are held for one owner: both without an owner, or the same
\* user id
SameOwner(a, b) ==
    \/ NoOwner(a) /\ NoOwner(b)
    \/ ~NoOwner(a) /\ ~NoOwner(b) /\ StrictEq(a.userId, b.userId)

\* C19: no two stored cart items have the same owner, productId and size,
\* items without an owner counting as one owner's.
C19_NoDuplicateTriple ==
    \A i, j \in 1..Len(cart) :
        (i # j) =>
            ~(/\ SameOwner(cart[i].v, cart[j].v)
              /\ cart[i].v.productId = cart[j].v.productId
              /\ cart[i].v.size = cart[j].v.size)

\* C20: review and cart identifiers are handed out in increasing order and
\* not again: the counters never go back, a created record gets the
\* counter's value and moves the counter past it, and every stored
\* identifier is below its counter; so a removed record's identifier is
\* below every identifier handed out later.
C20_IdsNeverReused ==
    [][/\ currentReviewId' >= currentReviewId
       /\ currentCartItemId' >= currentCartItemId
       /\ \A i \in 1..Len(reviews') : reviews'[i].k < currentReviewId'
       /\ \A i \in 1..Len(cart') : cart'[i].k < currentCartItemId'
       /\ lastOp'.op = "createReview" =>
             /\ lastOp'.id = currentReviewId
             /\ currentReviewId' = currentReviewId + 1
             /\ ~MapHas(reviews, lastOp'.id) /\ MapHas(reviews', lastOp'.id)
       /\ (lastOp'.op = "addToCart" /\ ~MapHas(cart, lastOp'.id)) =>
             /\ lastOp'.id = currentCartItemId
             /\ currentCartItemId' = currentCartItemId + 1
             /\ MapHas(cart', lastOp'.id)]_vars

\* review 1 and cart item 1 have been removed, and the creations after
\* that returned 2
C20_Witness ==
    /\ ~MapHas(reviews, 1) /\ MapHas(reviews, 2)
    /\ ~MapHas(cart, 1) /\ MapHas(cart, 2)
    /\ lastOp.op = "addToCart" /\ lastOp.id = 2

-----------------------------------------------------------------------------
(* Properties of requests in flight together.                              *)

\* client c's handler has called addToCart / createReview
CalledAddToCart(c) ==
    inflight[c].pc # "idle" /\ inflight[c].result.op = "addToCart"
CalledCreateReview(c) ==
    inflight[c].pc # "idle" /\ inflight[c].result.op = "createReview"

\* the item client c's request asked for
ItemOf(c) == CartBodyData(inflight[c].request.body)

SameTriple(a, b) ==
    /\ a.productId = b.productId
    /\ a.size = b.size
    /\ a.userId = b.userId

\* the quantities asked for by the clients of S whose addToCart call named
\* item's triple
RECURSIVE RequestedBy(_, _)
RequestedBy(S, item) ==
    IF S = {} THEN 0
    ELSE LET c == CHOOSE d \in S : TRUE
             own == IF CalledAddToCart(c) /\ SameTriple(ItemOf(c), item)
                    THEN ItemOf(c).quantity.v ELSE 0
         IN own + RequestedBy(S \ {c}, item)

\* C16: whatever the order in which the handlers of the requests in flight
\* and the code after their awaits run, the store is the one a sequential
\* run of the storage calls made so far gives: the addToCart calls naming
\* one triple have produced one record, returned to each of them, that
\* holds the sum of their quantities; the cart and review counters are past
\* exactly the identifiers handed out; two calls that created records got
\* different identifiers; every created review is stored with its rating;
\* and in no state is an approved review missing from the first product's
\* rating and reviewCount.
C16_InterleavingsSerialize ==
    /\ \A c \in Clients :
          CalledAddToCart(c) =>
             LET held == SelectSeq(MapValues(cart),
                                   LAMBDA item : SameTriple(item, ItemOf(c)))
             IN /\ Len(held) = 1
                /\ held[1].id = inflight[c].result.id
                /\ held[1].quantity = Num(RequestedBy(Clients, ItemOf(c)))
    /\ currentCartItemId = Len(cart) + 1
    /\ currentReviewId = Cardinality({c \in Clients : CalledCreateReview(c)}) + 1
    /\ \A c, d \in Clients :
          (c # d /\ CalledCreateReview(c) /\ CalledCreateReview(d)) =>
             inflight[c].result.id # inflight[d].result.id
    /\ \A c, d \in Clients :
          (c # d /\ CalledAddToCart(c) /\ CalledAddToCart(d)
             /\ ~SameTriple(ItemOf(c), ItemOf(d))) =>
             inflight[c].result.id # inflight[d].result.id
    /\ \A c \in Clients :
          CalledCreateReview(c) =>
             /\ MapHas(reviews, inflight[c].result.id)
             /\ MapGet(reviews, inflight[c].result.id).rating
                   = inflight[c].request.body.rating
    /\ ApprovedCount >= 1 => AggregateMatchesApproved

\* two POST /api/cart requests for one triple are both waiting after their
\* await, and the one record holds the sum of the default quantity and 2
C16_Witness ==
    /\ \A c \in Clients : inflight[c].pc = "awaiting" /\ CalledAddToCart(c)
    /\ \E c, d \in Clients :
          /\ c # d
          /\ inflight[c].request.body.quantity = Undefined
          /\ inflight[d].request.body.quantity = Num(2)
          /\ SameTriple(ItemOf(c), ItemOf(d))
    /\ Len(cart) = 1
    /\ cart[1].v.quantity = Num(3)

-----------------------------------------------------------------------------
(* Properties of the review listings.                                      *)

\* C21: getAllReviews lists every stored review once with a review created
\* later (a greater id) never after one created earlier, and
\* getApprovedReviews is that list restricted to the approved reviews.
C21_NewestFirst ==
    /\ Len(getAllReviews) = Len(reviews)
    /\ \A i \in 1..Len(reviews) :
          \E j \in 1..Len(getAllReviews) : getAllReviews[j] = reviews[i].v
    /\ \A i, j \in 1..Len(getAllReviews) :
          i < j => getAllReviews[i].id > getAllReviews[j].id
    /\ getApprovedReviews = SelectSeq(getAllReviews, LAMBDA review : review.approved)

-----------------------------------------------------------------------------
(* Properties of the seeded admin's elevation.                             *)

\* C22: the seeded "admin" is stored with isAdmin = FALSE until the deferred
\* callback runs; the callback eventually runs and runs once, the admin flag
\* of user 1 changes in that step only and nothing else of any user does;
\* from then on verifyAdmin("admin", "admin123") is true in every state,
\* whatever createUser calls come before or after.
C22_SeedElevatedOnce ==
    /\ [](seedPending => ~MapGet(users, 1).isAdmin)
    /\ <>(~seedPending)
    /\ [][~seedPending => ~seedPending']_vars
    /\ [][(seedPending /\ ~seedPending') =>
            /\ Len(users') = Len(users)
            /\ \A i \in 2..Len(users) : users'[i] = users[i]
            /\ users'[1] = [users[1] EXCEPT !.v.isAdmin = TRUE]
            /\ currentUserId' = currentUserId]_vars
    /\ [][(seedPending' = seedPending) =>
            \A i \in 1..Len(users) : users'[i] = users[i]]_vars
    /\ [](~seedPending => [](~seedPending /\ verifyAdmin("admin", "admin123")))

\* createUser calls ran before and after the callback, one of them under
\* the name "admin" with another password, and the seed's credentials verify
C22_Witness ==
    /\ ~seedPending
    /\ lastOp.op = "createUser" /\ lastOp.id = MaxUsers
    /\ MapGet(users, 2).username = "admin" /\ MapGet(users, 2).password = "letmein"
    /\ MapGet(users, 1).isAdmin
    /\ verifyAdmin("admin", "admin123")

====
